---------------------------- MODULE Spec2Model ----------------------------
(***************************************************************************)
(* Model of the dependency-driven agent scheduler of src/main.py:          *)
(* main() plans a graph of agents, runs them wave by wave                  *)
(* (run_child_agent, one asyncio task per ready agent, joined by           *)
(* asyncio.gather), asks the master agent for a new plan when a critical   *)
(* tool limitation was recorded, and builds the prompt of the final        *)
(* verdict agent from the stored results.                                  *)
(*                                                                         *)
(* Texts are modelled as tuples, so that what a text was built from stays  *)
(* visible: <<"content", i, c>> is the content of the response to call c   *)
(* of agent i, <<"exc", i, c>> is str(e) of the exception of that call.    *)
(***************************************************************************)
EXTENDS Integers, Sequences, FiniteSets, TLC

\* Largest number of agents of a planned graph that declare required_tools
\* or a fallback_strategy.
MaxSpecial == 2

\* What child_agent.arun answers to the call `call` ("primary", "fallback")
\* of agent index: the content of its response, or the text of the
\* exception it raises.  Every call has a text of its own.
Content(index, call) == <<"content", index, call>>
Exc(index, call) == <<"exc", index, call>>

(***************************************************************************)
(* The planner's objects.  An agent is the object main.py reads: id and    *)
(* relies_on (typedef/main.py), required_tools and fallback_strategy       *)
(* (read at main.py 54-67, 84, 249-258).  type, usecase and prompt are     *)
(* labels derived from the id.  fallback_strategy is TRUE when a strategy  *)
(* text is set (the code only tests its truth and pastes it into prompts). *)
(* relies_on None and relies_on [] are both <<>>: the code tests the       *)
(* truth of relies_on (main.py 29, 203) before it iterates over it.        *)
(***************************************************************************)
ToolRequirement(name, crit) ==
    [tool_name |-> name, required_capabilities |-> <<"cap", name>>, critical |-> crit]

\* required_tools values of the generated agents: none, one non-critical
\* tool, two critical tools around a non-critical one.
ToolSets ==
    { <<>>,
      <<ToolRequirement("Y", FALSE)>>,
      <<ToolRequirement("X", TRUE), ToolRequirement("Y", FALSE), ToolRequirement("Z", TRUE)>> }

AgentConfig(id, deps, tools, fb) ==
    [id |-> id, type |-> <<"type", id>>, usecase |-> <<"usecase", id>>,
     prompt |-> <<"prompt", id>>, relies_on |-> deps,
     required_tools |-> tools, fallback_strategy |-> fb]

\* Dependency shapes of the planned graphs, in declaration order:
\* <<id, relies_on>> per agent.  Id 4 is never an agent of a shape.
Shapes ==
    { <<>>,
      << <<1, <<>>>> >>,
      << <<1, <<>>>>, <<2, <<1>>>>, <<3, <<>>>> >>,
      << <<1, <<>>>>, <<2, <<1>>>>, <<3, <<1, 2>>>> >>,
      << <<1, <<>>>>, <<2, <<1>>>>, <<3, <<1>>>> >>,
      << <<1, <<>>>>, <<2, <<>>>>, <<3, <<2, 1>>>> >>,
      << <<2, <<1>>>>, <<1, <<>>>> >>,
      << <<1, <<2>>>>, <<2, <<1>>>>, <<3, <<>>>> >>,
      << <<1, <<1>>>>, <<2, <<>>>> >>,
      << <<1, <<>>>>, <<2, <<1>>>>, <<3, <<1, 4>>>> >>,
      << <<1, <<2>>>>, <<2, <<1>>>> >> }

\* The assignments of required_tools and fallback_strategy to a shape that
\* give at most MaxSpecial agents any of the two.
GraphsOf(shape) ==
    LET n == Len(shape)
        Assignments ==
            { a \in [tl : [1..n -> ToolSets], fb : [1..n -> BOOLEAN]] :
                Cardinality({i \in 1..n : a.tl[i] # <<>> \/ a.fb[i]}) <= MaxSpecial }
    IN  { [i \in 1..n |-> AgentConfig(shape[i][1], shape[i][2], a.tl[i], a.fb[i])] :
            a \in Assignments }

\* The agents lists the first planner call can return.
Graphs == UNION { GraphsOf(s) : s \in Shapes }

\* The agents lists a re-plan call can return.
ReplanGraphs ==
    { <<>>,
      <<AgentConfig(1, <<>>, <<>>, FALSE)>>,
      <<AgentConfig(5, <<>>, <<>>, FALSE), AgentConfig(6, <<5>>, <<>>, TRUE)>> }

VARIABLES
    pc,               \* position of main(): plan, loop, gather, aggregate, done, aborted
    master_config,    \* [ok, agents]: the planner object bound to master_config
    agent_map,        \* id -> agent
    results,          \* the results dict, as the sequence of its values in insertion order
    failed_agents,    \* set of ids
    tool_limitations, \* list of limitation records
    remaining_agents, \* set of ids
    ready_agents,     \* list of ids of the current wave
    tasks,            \* one task per entry of ready_agents
    verdict_prompt,   \* what the verdict agent is given
    wave,             \* history: number of waves launched
    launch_log,       \* history: one record per launched agent
    replan_log,       \* history: one record per re-plan request sent
    exit_by,          \* history: how the while loop was left
    plan_log,         \* history: the agents lists bound to master_config, in order
    call_log          \* history: the calls of child_agent.arun and how they ended

vars == <<pc, master_config, agent_map, results, failed_agents, tool_limitations,
          remaining_agents, ready_agents, tasks, verdict_prompt, wave, launch_log,
          replan_log, exit_by, plan_log, call_log>>

\* keys of the results dict, and lookup by key
ResultKeys(res) == {res[i].index : i \in 1..Len(res)}
ResultOf(res, idx) == res[CHOOSE i \in 1..Len(res) : res[i].index = idx]

\* results[agent_idx] = result: a new key is appended, an existing key keeps
\* its place.
DictSet(res, r) ==
    IF r.index \in ResultKeys(res)
    THEN [i \in 1..Len(res) |-> IF res[i].index = r.index THEN r ELSE res[i]]
    ELSE Append(res, r)

Ids(agents) == {agents[i].id : i \in 1..Len(agents)}

\* agent_map[agent.id] = agent for each agent in order: the last agent
\* declared with an id wins.
AgentMap(agents) ==
    [id \in Ids(agents) |->
        agents[CHOOSE i \in 1..Len(agents) :
                  /\ agents[i].id = id
                  /\ \A j \in 1..Len(agents) : agents[j].id = id => j <= i]]

\* is_ready without the test of the parents: every remaining agent is ready.
is_ready_unconditional(amap, res, agent_idx) == TRUE

\* is_ready content with one completed parent.
is_ready_any_parent(amap, res, agent_idx) ==
    LET agent == amap[agent_idx]
    IN  IF agent.relies_on = <<>>
        THEN TRUE
        ELSE \E k \in 1..Len(agent.relies_on) : agent.relies_on[k] \in ResultKeys(res)

\* is_ready(agent_idx)
is_ready(amap, res, agent_idx) ==
    LET agent == amap[agent_idx]
    IN  IF agent.relies_on = <<>>
        THEN TRUE
        ELSE \A k \in 1..Len(agent.relies_on) : agent.relies_on[k] \in ResultKeys(res)

\* ready_agents cut down to one agent: the waves run one agent at a time.
ReadySetFirstOnly ==
    LET ready == {idx \in remaining_agents : is_ready(agent_map, results, idx)}
    IN  {idx \in ready : \A other \in ready : idx <= other}

\* the ids of ready_agents = [idx for idx in remaining_agents if is_ready(idx)]
ReadySet == {idx \in remaining_agents : is_ready(agent_map, results, idx)}

\* The orders in which a set can be iterated.
Orders(S) ==
    {o \in [1..Cardinality(S) -> S] : \A i, j \in 1..Cardinality(S) : o[i] = o[j] => i = j}

Init ==
    /\ pc = "plan"
    /\ master_config = [ok |-> FALSE, agents |-> <<>>]
    /\ agent_map = <<>>
    /\ results = <<>>
    /\ failed_agents = {}
    /\ tool_limitations = <<>>
    /\ remaining_agents = {}
    /\ ready_agents = <<>>
    /\ tasks = <<>>
    /\ verdict_prompt = <<>>
    /\ wave = 0
    /\ launch_log = {}
    /\ replan_log = <<>>
    /\ exit_by = ""
    /\ plan_log = <<>>
    /\ call_log = {}

\* main.py 137-209: the master agent returns a plan, and the execution state
\* is set up.
Plan(g) ==
    /\ pc = "plan"
    /\ master_config' = [ok |-> TRUE, agents |-> g]
    /\ results' = <<>>
    /\ failed_agents' = {}
    /\ tool_limitations' = <<>>
    /\ agent_map' = AgentMap(g)
    /\ remaining_agents' = Ids(g)
    /\ plan_log' = <<g>>
    /\ pc' = "loop"
    /\ UNCHANGED <<ready_agents, tasks, verdict_prompt, wave, launch_log, replan_log,
                   exit_by, call_log>>

\* main.py 137-168, 347-349: the master agent raises, or its content cannot
\* be read as a plan; the outer handler ends the run.
PlanFails ==
    /\ pc = "plan"
    /\ pc' = "aborted"
    /\ UNCHANGED <<master_config, agent_map, results, failed_agents, tool_limitations,
                   remaining_agents, ready_agents, tasks, verdict_prompt, wave,
                   launch_log, replan_log, exit_by, plan_log, call_log>>

(***************************************************************************)
(* run_child_agent (main.py 15-117), one step per stretch of code between  *)
(* two suspensions of the task.                                            *)
(***************************************************************************)

\* main.py 29-35: the parent lookup raises ValueError.
MissingParent(agent, parent_results) ==
    /\ parent_results # <<>>
    /\ agent.relies_on # <<>>
    /\ \E k \in 1..Len(agent.relies_on) : agent.relies_on[k] \notin ResultKeys(parent_results)

\* main.py 37-45: the block of one parent.
ParentContext(parent_results, parent_idx) ==
    LET r == ResultOf(parent_results, parent_idx)
    IN  [agent |-> parent_idx, type |-> r.config.type, focus |-> r.config.usecase,
         output |-> r.result]

\* main.py 53-67: the tool requirements and, within them, the fallback
\* strategy, appended to the prompt.
ToolContext(agent) ==
    IF agent.required_tools # <<>>
    THEN <<<<"Tool Requirements", agent.required_tools>>>> \o
         (IF agent.fallback_strategy
          THEN <<<<"Fallback Strategy", agent.id>>>> ELSE <<>>)
    ELSE <<>>

\* final_prompt with the parent blocks in the reverse of the relies_on order.
FinalPromptReversed(agent, parent_results) ==
    (IF parent_results # <<>> /\ agent.relies_on # <<>>
     THEN [k \in 1..Len(agent.relies_on) |->
              <<"Input from Agent",
                ParentContext(parent_results,
                              agent.relies_on[Len(agent.relies_on) + 1 - k])>>]
     ELSE <<>>)
    \o <<<<"prompt", agent.prompt>>>> \o ToolContext(agent)

\* main.py 26-67: final_prompt, as the sequence of its parts: the parent
\* blocks in the order of relies_on (joined at 47-48), the agent's prompt,
\* the tool requirements, the fallback strategy.
FinalPrompt(agent, parent_results) ==
    (IF parent_results # <<>> /\ agent.relies_on # <<>>
     THEN [k \in 1..Len(agent.relies_on) |->
              <<"Input from Agent", ParentContext(parent_results, agent.relies_on[k])>>]
     ELSE <<>>)
    \o <<<<"prompt", agent.prompt>>>> \o ToolContext(agent)

\* main.py 86-90: the prompt of the fallback call.
FallbackPrompt(agent, e) ==
    <<<<"Original task failed with error", e>>, <<"Fallback Strategy", agent.id>>>>

\* main.py 78
SuccessResult(agent, index, content) ==
    [config |-> agent, result |-> content, index |-> index, status |-> "success"]

\* main.py 80
ErrorMsg(agent, index, e) == <<"Error in Agent", index, agent.type, e>>

\* The fallback result with the formatted message of line 80 in the place of
\* str(e).
FallbackSuccessResultWithMessage(agent, index, content, e) ==
    [config |-> agent, result |-> content, index |-> index,
     status |-> "fallback_success", original_error |-> <<"Error in Agent", index, agent.type, e>>]

\* main.py 94-100
FallbackSuccessResult(agent, index, content, e) ==
    [config |-> agent, result |-> content, index |-> index,
     status |-> "fallback_success", original_error |-> e]

\* main.py 102-109
FallbackFailureResult(agent, index, e, fallback_error) ==
    [config |-> agent,
     result |-> <<"Both primary and fallback strategies failed", "Original error", e,
                  "Fallback error", fallback_error>>,
     index |-> index, status |-> "failure",
     original_error |-> e, fallback_error |-> fallback_error]

\* main.py 111-117
FailureResult(agent, index, e) ==
    [config |-> agent, result |-> ErrorMsg(agent, index, e), index |-> index,
     status |-> "failure", error |-> e]

\* History: the n-th call of child_agent.arun for agent idx, what it was
\* given and how it ended.
Call(idx, call, input, outcome) ==
    [idx |-> idx, call |-> call, input |-> input, outcome |-> outcome,
     n |-> Cardinality({c \in call_log : c.idx = idx}) + 1]

NewTask(idx) ==
    [idx |-> idx, st |-> "created", final_prompt |-> <<>>, e |-> <<>>, ret |-> <<>>,
     exc |-> ""]

\* main.py 212-215, 229-238: the loop is entered, the ready agents are
\* collected in the iteration order of the remaining set, and one task per
\* ready agent is created; main then waits in gather.
Launch(order) ==
    /\ pc = "loop"
    /\ remaining_agents # {}
    /\ ReadySet # {}
    /\ order \in Orders(ReadySet)
    /\ ready_agents' = order
    /\ tasks' = [i \in 1..Len(order) |-> NewTask(order[i])]
    /\ wave' = wave + 1
    /\ launch_log' = launch_log \cup
           {[idx |-> order[i], wave |-> wave + 1, config |-> agent_map[order[i]],
             seen |-> ResultKeys(results)] : i \in 1..Len(order)}
    /\ pc' = "gather"
    /\ UNCHANGED <<master_config, agent_map, results, failed_agents, tool_limitations,
                   remaining_agents, verdict_prompt, replan_log, exit_by, plan_log, call_log>>

\* The event loop starts the tasks in the order of their creation.
CanStart(i) ==
    /\ pc = "gather"
    /\ i \in 1..Len(tasks)
    /\ tasks[i].st = "created"
    /\ \A j \in 1..(i - 1) : tasks[j].st # "created"

\* main.py 24-75: the task builds its prompt from results (the parent lookup
\* raises ValueError for a missing parent), creates the child agent and
\* suspends in the primary arun.
TaskStart(i) ==
    /\ CanStart(i)
    /\ IF MissingParent(agent_map[tasks[i].idx], results)
       THEN tasks' = [tasks EXCEPT ![i].st = "raised", ![i].exc = "ValueError"]
       ELSE tasks' = [tasks EXCEPT ![i].st = "primary",
                                   ![i].final_prompt =
                                       FinalPrompt(agent_map[tasks[i].idx], results)]
    /\ UNCHANGED <<pc, master_config, agent_map, results, failed_agents, tool_limitations,
                   remaining_agents, ready_agents, verdict_prompt, wave, launch_log,
                   replan_log, exit_by, plan_log, call_log>>

\* main.py 69-72: CreateChild raises, outside the try of run_child_agent, and
\* the exception leaves the task.
CreateChildRaises(i) ==
    /\ CanStart(i)
    /\ ~MissingParent(agent_map[tasks[i].idx], results)
    /\ tasks' = [tasks EXCEPT ![i].st = "raised", ![i].exc = "CreateChild"]
    /\ UNCHANGED <<pc, master_config, agent_map, results, failed_agents, tool_limitations,
                   remaining_agents, ready_agents, verdict_prompt, wave, launch_log,
                   replan_log, exit_by, plan_log, call_log>>

\* The task writing its result into the results dict itself when the primary
\* arun returns.
PrimaryReturnsStoresResult(i) ==
    /\ pc = "gather"
    /\ i \in 1..Len(tasks)
    /\ tasks[i].st = "primary"
    /\ tasks' = [tasks EXCEPT ![i].st = "done",
                              ![i].ret = <<SuccessResult(agent_map[tasks[i].idx], tasks[i].idx,
                                                 Content(tasks[i].idx, "primary"))>>]
    /\ results' = DictSet(results, SuccessResult(agent_map[tasks[i].idx], tasks[i].idx,
                                                 Content(tasks[i].idx, "primary")))
    /\ call_log' = call_log \cup {Call(tasks[i].idx, "primary", tasks[i].final_prompt, "returned")}
    /\ UNCHANGED <<pc, master_config, agent_map, failed_agents, tool_limitations,
                   remaining_agents, ready_agents, verdict_prompt, wave, launch_log,
                   replan_log, exit_by, plan_log>>

\* main.py 75-78: the primary arun returns.
PrimaryReturns(i) ==
    /\ pc = "gather"
    /\ i \in 1..Len(tasks)
    /\ tasks[i].st = "primary"
    /\ tasks' = [tasks EXCEPT ![i].st = "done",
                              ![i].ret = <<SuccessResult(agent_map[tasks[i].idx], tasks[i].idx,
                                                 Content(tasks[i].idx, "primary"))>>]
    /\ call_log' = call_log \cup {Call(tasks[i].idx, "primary", tasks[i].final_prompt, "returned")}
    /\ UNCHANGED <<pc, master_config, agent_map, results, failed_agents, tool_limitations,
                   remaining_agents, ready_agents, verdict_prompt, wave, launch_log,
                   replan_log, exit_by, plan_log>>

\* The handler of the primary call going to the fallback call whether or not
\* the agent has a fallback strategy.
PrimaryRaisesAlwaysFallsBack(i) ==
    /\ pc = "gather"
    /\ i \in 1..Len(tasks)
    /\ tasks[i].st = "primary"
    /\ tasks' = [tasks EXCEPT ![i].st = "fallback", ![i].e = Exc(tasks[i].idx, "primary")]
    /\ call_log' = call_log \cup {Call(tasks[i].idx, "primary", tasks[i].final_prompt, "raised")}
    /\ UNCHANGED <<pc, master_config, agent_map, results, failed_agents, tool_limitations,
                   remaining_agents, ready_agents, verdict_prompt, wave, launch_log,
                   replan_log, exit_by, plan_log>>

\* main.py 79-91, 111-117: the primary arun raises e; with a fallback
\* strategy the task suspends in the fallback arun, else it returns failure.
PrimaryRaises(i) ==
    /\ pc = "gather"
    /\ i \in 1..Len(tasks)
    /\ tasks[i].st = "primary"
    /\ LET agent == agent_map[tasks[i].idx]
           e == Exc(tasks[i].idx, "primary")
       IN  IF agent.fallback_strategy
           THEN tasks' = [tasks EXCEPT ![i].st = "fallback", ![i].e = e]
           ELSE tasks' = [tasks EXCEPT ![i].st = "done", ![i].e = e,
                                       ![i].ret = <<FailureResult(agent, tasks[i].idx, e)>>]
    /\ call_log' = call_log \cup {Call(tasks[i].idx, "primary", tasks[i].final_prompt, "raised")}
    /\ UNCHANGED <<pc, master_config, agent_map, results, failed_agents, tool_limitations,
                   remaining_agents, ready_agents, verdict_prompt, wave, launch_log,
                   replan_log, exit_by, plan_log>>

\* main.py 91-100: the fallback arun returns.
FallbackReturns(i) ==
    /\ pc = "gather"
    /\ i \in 1..Len(tasks)
    /\ tasks[i].st = "fallback"
    /\ tasks' = [tasks EXCEPT ![i].st = "done",
                              ![i].ret = <<FallbackSuccessResult(agent_map[tasks[i].idx],
                                             tasks[i].idx,
                                             Content(tasks[i].idx, "fallback"),
                                             tasks[i].e)>>]
    /\ call_log' = call_log \cup {Call(tasks[i].idx, "fallback",
                                       FallbackPrompt(agent_map[tasks[i].idx], tasks[i].e),
                                       "returned")}
    /\ UNCHANGED <<pc, master_config, agent_map, results, failed_agents, tool_limitations,
                   remaining_agents, ready_agents, verdict_prompt, wave, launch_log,
                   replan_log, exit_by, plan_log>>

\* main.py 101-109: the fallback arun raises.
FallbackRaises(i) ==
    /\ pc = "gather"
    /\ i \in 1..Len(tasks)
    /\ tasks[i].st = "fallback"
    /\ tasks' = [tasks EXCEPT ![i].st = "done",
                              ![i].ret = <<FallbackFailureResult(agent_map[tasks[i].idx],
                                             tasks[i].idx, tasks[i].e,
                                             Exc(tasks[i].idx, "fallback"))>>]
    /\ call_log' = call_log \cup {Call(tasks[i].idx, "fallback",
                                       FallbackPrompt(agent_map[tasks[i].idx], tasks[i].e),
                                       "raised")}
    /\ UNCHANGED <<pc, master_config, agent_map, results, failed_agents, tool_limitations,
                   remaining_agents, ready_agents, verdict_prompt, wave, launch_log,
                   replan_log, exit_by, plan_log>>

\* main.py 238, 347-349: gather re-raises the exception of a task in main(),
\* whose outer handler ends the run; the tasks still pending are cancelled
\* when the event loop is closed.
GatherRaises ==
    /\ pc = "gather"
    /\ \E i \in 1..Len(tasks) : tasks[i].st = "raised"
    /\ pc' = "aborted"
    /\ UNCHANGED <<master_config, agent_map, results, failed_agents, tool_limitations,
                   remaining_agents, ready_agents, tasks, verdict_prompt, wave,
                   launch_log, replan_log, exit_by, plan_log, call_log>>

(***************************************************************************)
(* The wave close of main(): main.py 238-298 run without suspension once   *)
(* gather has returned (master_agent.run is a synchronous call).           *)
(***************************************************************************)

\* main.py 252-258: the limitation record of one critical tool.
Limitation(agent_idx, agent, tool_req, result) ==
    [agent_id |-> agent_idx, agent_type |-> agent.type, tool |-> tool_req.tool_name,
     required_capabilities |-> tool_req.required_capabilities,
     error |-> IF "error" \in DOMAIN result THEN result.error ELSE <<"Unknown error">>]

\* main.py 249-258: the records appended for one failed result.
Limitations(agent_idx, agent, result) ==
    LET critical == SelectSeq(agent.required_tools, LAMBDA tool_req : tool_req.critical)
    IN  [k \in 1..Len(critical) |-> Limitation(agent_idx, agent, critical[k], result)]

\* The loop body counting every result that is not a plain success as failed.
StoreResultFailedUnlessSuccess(st, result) ==
    LET agent_idx == result.index
        failed == result.status # "success"
    IN  [results |-> DictSet(st.results, result),
         remaining_agents |-> st.remaining_agents \ {agent_idx},
         failed_agents |-> IF failed THEN st.failed_agents \cup {agent_idx}
                           ELSE st.failed_agents,
         tool_limitations |->
             IF failed
             THEN st.tool_limitations \o Limitations(agent_idx, agent_map[agent_idx], result)
             ELSE st.tool_limitations]

\* main.py 242-262: one iteration of the loop over completed_results.
StoreResult(st, result) ==
    LET agent_idx == result.index
        failed == result.status = "failure"
    IN  [results |-> DictSet(st.results, result),
         remaining_agents |-> st.remaining_agents \ {agent_idx},
         failed_agents |-> IF failed THEN st.failed_agents \cup {agent_idx}
                           ELSE st.failed_agents,
         tool_limitations |->
             IF failed
             THEN st.tool_limitations \o Limitations(agent_idx, agent_map[agent_idx], result)
             ELSE st.tool_limitations]

\* main.py 241-262: the loop over completed_results.
RECURSIVE StoreResults(_, _)
StoreResults(st, completed_results) ==
    IF completed_results = <<>>
    THEN st
    ELSE StoreResults(StoreResult(st, Head(completed_results)), Tail(completed_results))

\* main.py 238: gather returns the results in the order of the tasks.
GatherReturns ==
    /\ pc = "gather"
    /\ \A i \in 1..Len(tasks) : tasks[i].st = "done"

Stored ==
    StoreResults([results |-> results, remaining_agents |-> remaining_agents,
                  failed_agents |-> failed_agents, tool_limitations |-> tool_limitations],
                 [i \in 1..Len(tasks) |-> tasks[i].ret[1]])

\* main.py 267-275: the re-plan request, as recorded by the history.
ReplanRequest(limitations) == [wave |-> wave, limitations |-> limitations]

\* main.py 238-265: the wave closes and no limitation is on the list.
CloseWave ==
    /\ GatherReturns
    /\ Stored.tool_limitations = <<>>
    /\ results' = Stored.results
    /\ remaining_agents' = Stored.remaining_agents
    /\ failed_agents' = Stored.failed_agents
    /\ tool_limitations' = Stored.tool_limitations
    /\ pc' = "loop"
    /\ UNCHANGED <<master_config, agent_map, ready_agents, tasks, verdict_prompt, wave,
                   launch_log, replan_log, exit_by, plan_log, call_log>>

\* main.py 238-285, 296-298: the wave closes with limitations, and
\* master_agent.run raises or its fenced JSON does not validate; the handler
\* logs and the loop goes on.
ReplanRaises ==
    /\ GatherReturns
    /\ Stored.tool_limitations # <<>>
    /\ results' = Stored.results
    /\ remaining_agents' = Stored.remaining_agents
    /\ failed_agents' = Stored.failed_agents
    /\ tool_limitations' = Stored.tool_limitations
    /\ replan_log' = Append(replan_log, ReplanRequest(Stored.tool_limitations))
    /\ pc' = "loop"
    /\ UNCHANGED <<master_config, agent_map, ready_agents, tasks, verdict_prompt, wave,
                   launch_log, exit_by, plan_log, call_log>>

\* main.py 238-280, 286-293, 296-298: the wave closes with limitations, and
\* the content of the master's response is neither fenced JSON nor a plan
\* object: it is bound to master_config, results, failed_agents and
\* tool_limitations are rebound to empty, and master_config.agents raises.
ReplanUnusable ==
    /\ GatherReturns
    /\ Stored.tool_limitations # <<>>
    /\ master_config' = [ok |-> FALSE, agents |-> <<>>]
    /\ results' = <<>>
    /\ failed_agents' = {}
    /\ tool_limitations' = <<>>
    /\ remaining_agents' = Stored.remaining_agents
    /\ replan_log' = Append(replan_log, ReplanRequest(Stored.tool_limitations))
    /\ pc' = "loop"
    /\ UNCHANGED <<agent_map, ready_agents, tasks, verdict_prompt, wave, launch_log,
                   exit_by, plan_log, call_log>>

\* The adoption of the new plan without the reset of results and
\* failed_agents.
ReplanAdoptsKeepingResults(g) ==
    /\ GatherReturns
    /\ Stored.tool_limitations # <<>>
    /\ master_config' = [ok |-> TRUE, agents |-> g]
    /\ results' = Stored.results
    /\ failed_agents' = Stored.failed_agents
    /\ tool_limitations' = <<>>
    /\ remaining_agents' = Ids(g)
    /\ agent_map' = AgentMap(g)
    /\ replan_log' = Append(replan_log, ReplanRequest(Stored.tool_limitations))
    /\ exit_by' = "replan"
    /\ pc' = "aggregate"
    /\ plan_log' = Append(plan_log, g)
    /\ UNCHANGED <<ready_agents, tasks, verdict_prompt, wave, launch_log, call_log>>

\* main.py 238-295: the wave closes with limitations, the master returns a
\* new plan, the execution state is reset and break leaves the while loop.
ReplanAdopts(g) ==
    /\ GatherReturns
    /\ Stored.tool_limitations # <<>>
    /\ master_config' = [ok |-> TRUE, agents |-> g]
    /\ results' = <<>>
    /\ failed_agents' = {}
    /\ tool_limitations' = <<>>
    /\ remaining_agents' = Ids(g)
    /\ agent_map' = AgentMap(g)
    /\ replan_log' = Append(replan_log, ReplanRequest(Stored.tool_limitations))
    /\ exit_by' = "replan"
    /\ pc' = "aggregate"
    /\ plan_log' = Append(plan_log, g)
    /\ UNCHANGED <<ready_agents, tasks, verdict_prompt, wave, launch_log, call_log>>

\* main.py 212: remaining_agents is empty and the while loop ends.
LoopEnds ==
    /\ pc = "loop"
    /\ remaining_agents = {}
    /\ exit_by' = "completed"
    /\ pc' = "aggregate"
    /\ UNCHANGED <<master_config, agent_map, results, failed_agents, tool_limitations,
                   remaining_agents, ready_agents, tasks, verdict_prompt, wave,
                   launch_log, replan_log, plan_log, call_log>>

\* The deadlock branch raising in the place of break: the outer handler ends
\* the run.
DeadlockRaises ==
    /\ pc = "loop"
    /\ remaining_agents # {}
    /\ ReadySet = {}
    /\ ready_agents' = <<>>
    /\ exit_by' = "deadlock"
    /\ pc' = "aborted"
    /\ UNCHANGED <<master_config, agent_map, results, failed_agents, tool_limitations,
                   remaining_agents, tasks, verdict_prompt, wave, launch_log, replan_log,
                   plan_log, call_log>>

\* main.py 214-227: no remaining agent is ready; the diagnostic is printed
\* and break leaves the while loop.
Deadlock ==
    /\ pc = "loop"
    /\ remaining_agents # {}
    /\ ReadySet = {}
    /\ ready_agents' = <<>>
    /\ exit_by' = "deadlock"
    /\ pc' = "aggregate"
    /\ UNCHANGED <<master_config, agent_map, results, failed_agents, tool_limitations,
                   remaining_agents, tasks, verdict_prompt, wave, launch_log, replan_log,
                   plan_log, call_log>>

\* main.py 313-325: the block of one result in the verdict prompt.
VerdictBlock(result) ==
    [agent |-> result.config.type, focus |-> result.config.usecase,
     status |-> IF "status" \in DOMAIN result THEN result.status ELSE "success",
     output |-> result.result]

\* main.py 300-337: the verdict prompt: the blocks of list(results.values())
\* and the note on failed agents when there are any.
VerdictPrompt(res, failed) ==
    [blocks |-> [i \in 1..Len(res) |-> VerdictBlock(res[i])],
     note |-> IF failed # {} THEN <<failed>> ELSE <<>>]

\* main.py 300-345
Aggregate ==
    /\ pc = "aggregate"
    /\ verdict_prompt' = VerdictPrompt(results, failed_agents)
    /\ pc' = "done"
    /\ UNCHANGED <<master_config, agent_map, results, failed_agents, tool_limitations,
                   remaining_agents, ready_agents, tasks, wave, launch_log, replan_log,
                   exit_by, plan_log, call_log>>

Next ==
    \/ \E g \in Graphs : Plan(g)
    \/ PlanFails
    \/ \E order \in Orders(ReadySet) : Launch(order)
    \/ \E i \in 1..Len(tasks) : TaskStart(i)
    \/ \E i \in 1..Len(tasks) : CreateChildRaises(i)
    \/ \E i \in 1..Len(tasks) : PrimaryReturns(i)
    \/ \E i \in 1..Len(tasks) : PrimaryRaises(i)
    \/ \E i \in 1..Len(tasks) : FallbackReturns(i)
    \/ \E i \in 1..Len(tasks) : FallbackRaises(i)
    \/ GatherRaises
    \/ CloseWave
    \/ ReplanRaises
    \/ ReplanUnusable
    \/ \E g \in ReplanGraphs : ReplanAdopts(g)
    \/ LoopEnds
    \/ Deadlock
    \/ Aggregate


Spec == Init /\ [][Next]_vars

(***************************************************************************)
(* The properties.                                                         *)
(***************************************************************************)

\* The structural validity of a planned graph (spec 3, 4.1): unique ids, every
\* relies_on id an agent of the graph, and no cycle (a topological order of
\* all agents exists).
Range(s) == {s[i] : i \in 1..Len(s)}

UniqueIds(agents) ==
    \A i, j \in 1..Len(agents) : agents[i].id = agents[j].id => i = j

KnownDependencies(agents) ==
    \A i \in 1..Len(agents) : Range(agents[i].relies_on) \subseteq Ids(agents)

RECURSIVE Ordered(_, _)
Ordered(agents, placed) ==
    LET next == {agents[i].id : i \in {i \in 1..Len(agents) :
                     /\ agents[i].id \notin placed
                     /\ Range(agents[i].relies_on) \subseteq placed}}
    IN  IF next = {} THEN placed ELSE Ordered(agents, placed \cup next)

Acyclic(agents) == Ordered(agents, {}) = Ids(agents)

ValidGraph(agents) ==
    UniqueIds(agents) /\ KnownDependencies(agents) /\ Acyclic(agents)

\* The graph planned first, and the graph in use.
Planned == plan_log # <<>>
FirstPlan == plan_log[1]
LastPlan == plan_log[Len(plan_log)]

\* The loop has been left and main() is at or after the aggregation.
LoopLeft == pc \in {"aggregate", "done"}

\* C1: for a valid acyclic graph the scheduling loop ends in Completed
\* (remaining is empty) or in Deadlocked (nothing ready, remaining non-empty)
\* and then reaches aggregation.
C1_LoopEndsCompletedOrDeadlocked ==
    (Planned /\ ValidGraph(FirstPlan) /\ LoopLeft)
        => (remaining_agents = {} \/ ReadySet = {})

\* C2: an agent A relying on B is launched in a wave after the wave B ran in,
\* and B's result is stored in results when A is launched.
C2_DependenciesRunInEarlierWaves ==
    \A a \in launch_log : \A k \in 1..Len(a.config.relies_on) :
        LET b == a.config.relies_on[k]
        IN  /\ b \in a.seen
            /\ \E l \in launch_log : l.idx = b
            /\ \A l \in launch_log : l.idx = b => l.wave < a.wave

C2_Witness ==
    \E a \in launch_log : Len(a.config.relies_on) = 2 /\ a.wave = 3

\* C3: after the planner has returned a new graph at a wave close, the new
\* graph's agents are executed and the aggregation holds their results.
C3_NewGraphIsExecuted ==
    (pc = "done" /\ exit_by = "replan")
        => {verdict_prompt.blocks[i].agent : i \in 1..Len(verdict_prompt.blocks)}
               = {LastPlan[i].type : i \in 1..Len(LastPlan)}

\* C4: no agent of a structurally invalid graph (unknown dependency id,
\* self-dependency, cycle) is ever launched.
C4_InvalidGraphIsNeverLaunched ==
    (Planned /\ ~ValidGraph(FirstPlan)) => launch_log = {}

\* C5: when the primary call of an agent raised and its fallback call
\* returned, the agent's result has status fallback_success, its output is
\* the content of the fallback call and it carries the text of the primary
\* call's exception.
Called(idx, call, outcome) ==
    \E c \in call_log : c.idx = idx /\ c.call = call /\ c.outcome = outcome

FallbackSucceeded(idx) ==
    Called(idx, "primary", "raised") /\ Called(idx, "fallback", "returned")

Returned ==
    {tasks[i].ret[1] : i \in {i \in 1..Len(tasks) : tasks[i].st = "done"}}

C5_FallbackSuccessCarriesOutputAndError ==
    \A r \in Returned \cup Range(results) :
        FallbackSucceeded(r.index) =>
            /\ r.status = "fallback_success"
            /\ r.result = Content(r.index, "fallback")
            /\ "original_error" \in DOMAIN r
            /\ r.original_error = Exc(r.index, "primary")

C5_Witness ==
    \E r \in Range(results) : FallbackSucceeded(r.index)

\* C6: the aggregation lists the results in the declaration order of the
\* agents of the graph.
Position(agents, type) == CHOOSE i \in 1..Len(agents) : agents[i].type = type

C6_AggregationInDeclarationOrder ==
    pc = "done" =>
        \A i, j \in 1..Len(verdict_prompt.blocks) :
            i < j => Position(LastPlan, verdict_prompt.blocks[i].agent)
                         < Position(LastPlan, verdict_prompt.blocks[j].agent)

\* C7: a wave is exactly the remaining agents whose relies_on ids are all
\* completed, launched together (waves {1,3} then {2} for the agents 1, 2
\* relying on 1, 3); and when the loop is left on a valid acyclic graph
\* without any recorded limitation, every agent id is completed.
Satisfied(idx) ==
    Range(agent_map[idx].relies_on) \subseteq ResultKeys(results)

ExampleShape == << <<1, <<>>>>, <<2, <<1>>>>, <<3, <<>>>> >>
ShapeOf(agents) == [i \in 1..Len(agents) |-> <<agents[i].id, agents[i].relies_on>>]

C7_WavesAreTheReadySets ==
    /\ pc = "gather" =>
          /\ Range(ready_agents) = {idx \in remaining_agents : Satisfied(idx)}
          /\ Len(ready_agents) = Cardinality(Range(ready_agents))
          /\ \A idx \in Range(ready_agents) : \E l \in launch_log : l.idx = idx /\ l.wave = wave
    /\ (Planned /\ ShapeOf(FirstPlan) = ExampleShape) =>
          \A l \in launch_log : l.wave = IF l.idx = 2 THEN 2 ELSE 1
    /\ (Planned /\ ValidGraph(FirstPlan) /\ LoopLeft
          /\ tool_limitations = <<>> /\ replan_log = <<>>)
          => ResultKeys(results) = Ids(FirstPlan)

C7_Witness ==
    /\ pc = "done"
    /\ ShapeOf(FirstPlan) = ExampleShape
    /\ ResultKeys(results) = {1, 2, 3}
    /\ {<<l.idx, l.wave>> : l \in launch_log} = {<<1, 1>>, <<3, 1>>, <<2, 2>>}

\* C8: when nothing is ready and agents remain, the loop is left for the
\* aggregation: nothing more is launched, the results are kept, the run is
\* not aborted, and the aggregation is built from exactly those results.
C8_DeadlockGoesToAggregation ==
    /\ [][(pc = "loop" /\ remaining_agents # {} /\ ~\E idx \in remaining_agents : Satisfied(idx))
             => (pc' = "aggregate" /\ results' = results /\ launch_log' = launch_log)]_vars
    /\ [][exit_by = "deadlock"
             => /\ pc' = "done"
                /\ results' = results
                /\ launch_log' = launch_log
                /\ Len(verdict_prompt'.blocks) = Len(results)
                /\ \A i \in 1..Len(results) :
                      /\ verdict_prompt'.blocks[i].agent = results[i].config.type
                      /\ verdict_prompt'.blocks[i].status = results[i].status
                      /\ verdict_prompt'.blocks[i].output = results[i].result]_vars

C8_Witness ==
    pc = "done" /\ exit_by = "deadlock" /\ Len(verdict_prompt.blocks) > 0

\* C9: whatever error an agent hits, the wave closes with a result for every
\* launched agent and the pass is not aborted.
C9_AgentErrorsNeverAbortThePass ==
    pc = "aborted" => launch_log = {}

\* C10: after a failed re-plan request no other request is sent for the same
\* accumulated limitations.
C10_OneRequestPerLimitationBatch ==
    \A i, j \in 1..Len(replan_log) :
        i < j => replan_log[i].limitations # replan_log[j].limitations

\* C11: a failed re-plan attempt leaves the state as it was before the
\* attempt: the results stored at the wave close, the failed agents, the
\* remaining agents and the graph in use.
ReplanAttemptFailed == Len(replan_log') > Len(replan_log) /\ pc' = "loop"

C11_FailedReplanKeepsTheState ==
    [][ReplanAttemptFailed =>
          /\ results' = Stored.results
          /\ failed_agents' = Stored.failed_agents
          /\ remaining_agents' = Stored.remaining_agents
          /\ agent_map' = agent_map]_vars

\* C12: after a successful re-plan the aggregation holds no result of an
\* agent of the discarded pass, and the failure note names no agent that
\* failed in it.
OldPassFailed ==
    {l.idx : l \in {l \in launch_log :
        \/ Called(l.idx, "fallback", "raised")
        \/ Called(l.idx, "primary", "raised") /\ ~l.config.fallback_strategy}}

C12_NoResidueAfterReplan ==
    (pc = "done" /\ exit_by = "replan") =>
        /\ \A i \in 1..Len(verdict_prompt.blocks) : \A l \in launch_log :
               /\ verdict_prompt.blocks[i].agent # l.config.type
               /\ verdict_prompt.blocks[i].output \notin
                      {Content(l.idx, "primary"), Content(l.idx, "fallback")}
        /\ \A k \in 1..Len(verdict_prompt.note) :
               verdict_prompt.note[k] \cap OldPassFailed = {}

C12_Witness ==
    /\ pc = "done"
    /\ exit_by = "replan"
    /\ OldPassFailed # {}
    /\ \E l \in launch_log : Called(l.idx, "primary", "returned")

\* C13: while a pass goes on, an id that is in completed stays in completed
\* with its result, and the ready set of a wave holds no completed id.
PassGoesOn == pc \in {"loop", "gather"} /\ pc' \in {"loop", "gather"}

C13_CompletedOnlyGrows ==
    /\ [][PassGoesOn =>
             \A idx \in ResultKeys(results) :
                 /\ idx \in ResultKeys(results')
                 /\ ResultOf(results', idx) = ResultOf(results, idx)]_vars
    /\ [](pc = "gather" => Range(ready_agents) \cap ResultKeys(results) = {})

\* C14: at aggregation the failure note names exactly the agents whose
\* aggregated result has status failure, and is there iff there is one.
AggregatedFailures ==
    {verdict_prompt.blocks[i].agent[2] :
        i \in {i \in 1..Len(verdict_prompt.blocks) :
                  verdict_prompt.blocks[i].status = "failure"}}

C14_NoteNamesExactlyTheFailures ==
    pc = "done" =>
        IF AggregatedFailures = {}
        THEN verdict_prompt.note = <<>>
        ELSE verdict_prompt.note = <<AggregatedFailures>>

C14_Witness ==
    /\ pc = "done"
    /\ verdict_prompt.note # <<>>
    /\ \E i \in 1..Len(verdict_prompt.blocks) :
           verdict_prompt.blocks[i].status = "fallback_success"
    /\ \E i \in 1..Len(verdict_prompt.blocks) :
           verdict_prompt.blocks[i].status = "success"

\* C15: the input of the primary call of an agent with a non-empty relies_on
\* is, in order, one block per id of relies_on carrying the output stored for
\* that agent, then the agent's own prompt.
PrimaryCallsOfTheWave ==
    {c \in call_log : c.call = "primary" /\ c.idx \in Range(ready_agents)}

C15_InputIsUpstreamBlocksThenPrompt ==
    pc = "gather" =>
        \A c \in PrimaryCallsOfTheWave :
            LET A == agent_map[c.idx]
                n == Len(A.relies_on)
            IN  n > 0 =>
                  /\ Len(c.input) > n
                  /\ \A k \in 1..n :
                        /\ c.input[k][1] = "Input from Agent"
                        /\ c.input[k][2].agent = A.relies_on[k]
                        /\ c.input[k][2].output = ResultOf(results, A.relies_on[k]).result
                  /\ c.input[n + 1] = <<"prompt", A.prompt>>

C15_Witness ==
    /\ pc = "gather"
    /\ \E c \in PrimaryCallsOfTheWave :
          /\ Len(agent_map[c.idx].relies_on) = 2
          /\ agent_map[c.idx].relies_on[1] # agent_map[c.idx].relies_on[2]
          /\ ResultOf(results, agent_map[c.idx].relies_on[1]).status = "failure"
          /\ ResultOf(results, agent_map[c.idx].relies_on[2]).status = "success"

\* C16: arun is called at most twice for an agent, the primary call first and
\* at most one fallback call; the fallback call follows a raised primary call
\* of an agent with a fallback strategy; a raised primary call without a
\* fallback strategy returns failure after that one call, and a raised
\* fallback call returns failure with both errors.
CallsOf(idx) == {c \in call_log : c.idx = idx}

LaunchedConfig(idx) == (CHOOSE l \in launch_log : l.idx = idx).config

C16_AtMostOneFallbackAttempt ==
    /\ \A c \in call_log :
          /\ Cardinality(CallsOf(c.idx)) <= 2
          /\ c.call = "primary" => c.n = 1
          /\ c.call = "fallback" =>
                /\ c.n = 2
                /\ Called(c.idx, "primary", "raised")
                /\ LaunchedConfig(c.idx).fallback_strategy
    /\ pc = "gather" =>
          \A i \in 1..Len(tasks) :
              LET idx == tasks[i].idx
                  A == agent_map[idx]
              IN  /\ (Called(idx, "primary", "raised") /\ ~A.fallback_strategy) =>
                        /\ tasks[i].st = "done"
                        /\ Cardinality(CallsOf(idx)) = 1
                        /\ tasks[i].ret[1].status = "failure"
                        /\ tasks[i].ret[1].error = Exc(idx, "primary")
                  /\ Called(idx, "fallback", "raised") =>
                        /\ tasks[i].st = "done"
                        /\ tasks[i].ret[1].status = "failure"
                        /\ tasks[i].ret[1].original_error = Exc(idx, "primary")
                        /\ tasks[i].ret[1].fallback_error = Exc(idx, "fallback")

C16_Witness ==
    /\ pc = "gather"
    /\ \E i, j \in 1..Len(tasks) :
          /\ Called(tasks[i].idx, "fallback", "raised")
          /\ Cardinality(CallsOf(tasks[i].idx)) = 2
          /\ Called(tasks[j].idx, "primary", "raised")
          /\ ~agent_map[tasks[j].idx].fallback_strategy
          /\ tasks[j].st = "done"

\* The agents launched in wave w whose result has status failure.
FailedInWave(w) ==
    {l \in launch_log :
        /\ l.wave = w
        /\ \/ Called(l.idx, "fallback", "raised")
           \/ Called(l.idx, "primary", "raised") /\ ~l.config.fallback_strategy}

\* The records of a re-plan request that were appended at the close of its wave.
AppendedAt(req) ==
    {k \in 1..Len(req.limitations) :
        \E l \in launch_log : l.wave = req.wave /\ l.idx = req.limitations[k].agent_id}

\* One record per failed agent and critical tool, and no other record.
LimitationsAreTheCriticalToolsOfFailures ==
    \A n \in 1..Len(replan_log) :
        LET req == replan_log[n]
            expected == UNION {{<<l.idx, l.config.type,
                                  l.config.required_tools[t].tool_name,
                                  l.config.required_tools[t].required_capabilities>> :
                                   t \in {t \in 1..Len(l.config.required_tools) :
                                             l.config.required_tools[t].critical}} :
                               l \in FailedInWave(req.wave)}
        IN  /\ {<<req.limitations[k].agent_id, req.limitations[k].agent_type,
                  req.limitations[k].tool, req.limitations[k].required_capabilities>> :
                    k \in AppendedAt(req)} = expected
            /\ Cardinality(AppendedAt(req)) = Cardinality(expected)

\* Every record carries an error text of the failed execution of its agent.
LimitationsCarryTheErrorText ==
    \A n \in 1..Len(replan_log) : \A k \in 1..Len(replan_log[n].limitations) :
        LET r == replan_log[n].limitations[k]
        IN  r.error \in {Exc(r.agent_id, "primary"), Exc(r.agent_id, "fallback")}

\* C17: a limitation record is appended exactly for each result with status
\* failure and each critical tool of its agent, and carries the error text of
\* the failed execution, also after a failed fallback.
C17_LimitationRecords ==
    LimitationsAreTheCriticalToolsOfFailures /\ LimitationsCarryTheErrorText

\* C18: the parent lookup of run_child_agent never raises: every id in the
\* relies_on of a launched agent is a key of the results handed to its task,
\* whatever the graph.
C18_MissingParentNeverRaised ==
    /\ \A l \in launch_log : Range(l.config.relies_on) \subseteq l.seen
    /\ pc = "gather" =>
          \A i \in 1..Len(tasks) :
              /\ ~MissingParent(agent_map[tasks[i].idx], results)
              /\ tasks[i].exc # "ValueError"

C18_Witness ==
    /\ pc = "gather"
    /\ ~ValidGraph(FirstPlan)
    /\ \E i \in 1..Len(tasks) :
          /\ agent_map[tasks[i].idx].relies_on # <<>>
          /\ tasks[i].st = "primary"

\* C19: while a task of the wave has not returned, results and
\* remaining_agents are not changed; no task is given the result of an agent
\* of its own wave; and the wave is closed only when every task has returned.
TaskRunning ==
    pc = "gather" /\ \E i \in 1..Len(tasks) : tasks[i].st \in {"created", "primary", "fallback"}

WaveCloses == pc = "gather" /\ pc' \in {"loop", "aggregate", "done"}

C19_ResultsChangeOnlyBetweenWaves ==
    /\ [][TaskRunning => results' = results /\ remaining_agents' = remaining_agents]_vars
    /\ [][WaveCloses => \A i \in 1..Len(tasks) : tasks[i].st = "done"]_vars
    /\ [](pc = "gather" =>
            \A i \in 1..Len(tasks) : \A k \in 1..Len(tasks[i].final_prompt) :
                tasks[i].final_prompt[k][1] = "Input from Agent" =>
                    tasks[i].final_prompt[k][2].agent \notin Range(ready_agents))

C19_Witness ==
    /\ pc = "gather"
    /\ \E i, j \in 1..Len(tasks) :
          /\ tasks[i].st = "done"
          /\ tasks[j].st = "created"
          /\ results # <<>>

\* The launched agents whose result has status failure.
FailedLaunches ==
    {l \in launch_log :
        \/ Called(l.idx, "fallback", "raised")
        \/ Called(l.idx, "primary", "raised") /\ ~l.config.fallback_strategy}

\* The text stored as the output of a failed agent.
FailureText(l) ==
    IF l.config.fallback_strategy
    THEN FallbackFailureResult(l.config, l.idx, Exc(l.idx, "primary"),
                               Exc(l.idx, "fallback")).result
    ELSE FailureResult(l.config, l.idx, Exc(l.idx, "primary")).result

\* Agent a, launched after the failed launch l, was given the failure text of
\* l as the output of its parent.
LaunchedWithFailureText(a, l) ==
    \E l2 \in launch_log :
        /\ l2.idx = a.id
        /\ l2.wave > l.wave
        /\ \E c \in call_log :
              /\ c.idx = a.id /\ c.call = "primary"
              /\ \E k \in 1..Len(c.input) :
                    /\ c.input[k][1] = "Input from Agent"
                    /\ c.input[k][2].agent = l.idx
                    /\ c.input[k][2].output = FailureText(l)

\* C20: when no re-plan replaces the graph, every agent that relies on a
\* failed agent is launched in a later wave with the failed agent's error
\* text as upstream output, and the pass does not end in the deadlock branch.
C20_FailedDependencyStillCompletes ==
    (pc = "done" /\ exit_by # "replan" /\ ValidGraph(FirstPlan)) =>
        /\ exit_by = "completed"
        /\ \A l \in FailedLaunches : \A n \in 1..Len(FirstPlan) :
               l.idx \in Range(FirstPlan[n].relies_on) =>
                   LaunchedWithFailureText(FirstPlan[n], l)

\* No agent has two launch records.
LaunchedAtMostOnce ==
    \A l1, l2 \in launch_log : l1.idx = l2.idx => l1 = l2

RemainingAndCompletedAreDisjoint ==
    remaining_agents \cap ResultKeys(results) = {}

\* remaining_agents and the keys of results make up the ids of the graph in
\* use.
RemainingAndCompletedCoverTheGraph ==
    remaining_agents \cup ResultKeys(results) = DOMAIN agent_map

\* A step of the pass over one graph: the graph is not replaced.
GraphKept == Len(plan_log) > 0 /\ plan_log' = plan_log

\* An id leaves remaining_agents only when the wave that launched it closes.
LeavesRemainingAtItsWaveClose ==
    \A idx \in remaining_agents \ remaining_agents' :
        /\ GatherReturns
        /\ idx \in Range(ready_agents)
        /\ \E l \in launch_log : l.idx = idx /\ l.wave = wave

\* C21: over a graph with unique ids every agent is launched at most once;
\* remaining_agents and the keys of results are disjoint and together are
\* the ids of the graph in use; an id leaves remaining_agents only in the
\* close of the wave that launched it.
C21_RemainingAndCompletedPartitionTheGraph ==
    /\ [](Planned /\ UniqueIds(FirstPlan) =>
            /\ LaunchedAtMostOnce
            /\ RemainingAndCompletedAreDisjoint
            /\ RemainingAndCompletedCoverTheGraph)
    /\ [][GraphKept /\ UniqueIds(FirstPlan) => LeavesRemainingAtItsWaveClose]_vars

=============================================================================
